---- MODULE Spec2Model ----
(***************************************************************************)
(* Persistence client of the status-page scraper                           *)
(* (scraper/internal/db/db.go): construction against a PostgreSQL server,  *)
(* schema migration, status-page reads and writes, and the incident        *)
(* upsert.  The store is modelled by what PostgreSQL and gorm do with the  *)
(* statements the client sends.                                            *)
(***************************************************************************)
EXTENDS Integers, Sequences, FiniteSets, TLC

VARIABLES
    dbExists,       \* the database named by POSTGRES_DATABASE exists on the server
    schemaExists,   \* the namespace schemaName exists in that database
    tables,         \* names of the tables that exist in the namespace
    status_page,    \* rows of mrs_hudson.status_page
    incidents,      \* rows of mrs_hudson.incidents
    client,         \* the process holds a *DbClient
    mig,            \* the AutoMigrate call in flight
    ret,            \* what the last finished operation returned
    inserted,       \* URLs of the pages InsertStatusPage has stored (history)
    latest,         \* per deep link, the incident last upserted with success (history)
    calls,          \* concurrent CreateOrUpdateIncidents calls (SpecConc)
    base            \* incidents table when the running calls' epoch began (SpecConc)

vars == <<dbExists, schemaExists, tables, status_page, incidents, client, mig,
          ret, inserted, latest, calls, base>>

-----------------------------------------------------------------------------
(* Names fixed by the source *)

schemaName == "mrs_hudson"
statusPageTableName == "status_page"
incidentsTableName == "incidents"

-----------------------------------------------------------------------------
(* Bounds *)

\* longest batch handed to CreateOrUpdateIncidents
MaxBatch == 2

-----------------------------------------------------------------------------
(* Errors.  An error is the chain of its messages, outermost first; the    *)
(* empty chain is nil.                                                      *)

NoError == <<>>

\* errors.Wrap(err, msg)
Wrap(err, msg) == <<msg>> \o err

\* a *pgconn.PgError carrying an SQLSTATE code
PgError(code) == <<"PgError", code>>

\* a failure below SQL: the connection broke, the server went away
ConnError == <<"connection failure">>

\* gorm.ErrRecordNotFound
ErrRecordNotFound == <<"record not found">>

\* gorm.ErrEmptySlice
ErrEmptySlice == <<"empty slice found">>

\* errors.As(err, &pgErr): some error of the chain is a PgError
AsPgError(err) == \E i \in 1..Len(err) : err[i] = "PgError"

\* pgErr.Code after errors.As succeeded
PgCode(err) == err[(CHOOSE i \in 1..Len(err) : err[i] = "PgError") + 1]

DuplicateDatabase == "42P04"
InsufficientPrivilege == "42501"
UniqueViolation == "23505"
UndefinedTable == "42P01"
InvalidSchemaName == "3F000"
CardinalityViolation == "21000"
DeadlockDetected == "40P01"

-----------------------------------------------------------------------------
(* Entities *)

URLs == {"u1", "u2"}
Names == {"", "n1", "n2"}
ScrapeTimes == {0, 1}

\* api.StatusPage: URL is the unique key, "" and 0 are Go's zero values
StatusPages == [URL : URLs, Name : Names, LastScraped : ScrapeTimes]

\* the rows a pointer or a slice result holds: {} is the nil pointer and the
\* empty slice
NoRows == {}

\* what an operation hands back to its caller
Return(op, ctxDone, failed, err, arg, val, before) ==
    [op |-> op, ctxDone |-> ctxDone, failed |-> failed, err |-> err,
     arg |-> arg, val |-> val, before |-> before, opened |-> 0, handle |-> FALSE]

NoReturn == Return("none", FALSE, FALSE, NoError, NoRows, NoRows, NoRows)

MigIdle == [pc |-> "idle", ctxDone |-> FALSE, failed |-> FALSE]

-----------------------------------------------------------------------------
(* The store's answer to a statement on a table of the namespace *)

\* the error of a statement that names schemaName.table: fault is a failure
\* of the round trip itself, a missing relation is SQLSTATE 42P01
StatementError(table, fault) ==
    IF fault THEN ConnError
    ELSE IF ~schemaExists \/ table \notin tables THEN PgError(UndefinedTable)
    ELSE NoError

-----------------------------------------------------------------------------
(* NewDbClientFromEnvironment *)

\* what CREATE DATABASE can answer: the name is taken (42P04) only when the
\* database exists, and the statement succeeds only when it does not
CreateDatabaseOutcomes ==
    {ConnError, PgError(InsufficientPrivilege)}
        \cup (IF dbExists THEN {PgError(DuplicateDatabase)} ELSE {NoError})

\* the step with the SQLSTATE test left out: any PgError passes
wasCreatedSuccessfullyAnyCode(err) ==
    \/ err = NoError
    \/ AsPgError(err)

\* lines 56-65: the create-database step counts as done
wasCreatedSuccessfully(err) ==
    \/ err = NoError
    \/ AsPgError(err) /\ PgCode(err) = DuplicateDatabase

\* the value NewDbClientFromEnvironment returns, with the number of
\* gorm.Open calls it made on the way
NewDbClientResult(cfgErr, open1Err, execErr, open2Err) ==
    IF cfgErr # NoError
    THEN [err |-> cfgErr, handle |-> FALSE, opened |-> 0, failed |-> FALSE]
    ELSE IF open1Err # NoError
    THEN [err |-> Wrap(open1Err, "failed to connect to postgres"),
          handle |-> FALSE, opened |-> 1, failed |-> TRUE]
    ELSE IF ~wasCreatedSuccessfully(execErr)
    THEN [err |-> Wrap(execErr, "failed to create postgres database"),
          handle |-> FALSE, opened |-> 1, failed |-> TRUE]
    ELSE IF open2Err # NoError
    THEN [err |-> Wrap(open2Err, "failed to connect to postgres"),
          handle |-> FALSE, opened |-> 2, failed |-> TRUE]
    ELSE [err |-> NoError, handle |-> TRUE, opened |-> 2, failed |-> FALSE]

ConfigErrors == {NoError, <<"envconfig">>}
OpenErrors == {NoError, ConnError}

NewDbClientFromEnvironment ==
    /\ mig.pc = "idle"
    /\ \E cfgErr \in ConfigErrors, open1Err \in OpenErrors,
          execErr \in CreateDatabaseOutcomes, open2Err \in OpenErrors :
          LET r == NewDbClientResult(cfgErr, open1Err, execErr, open2Err)
              sent == cfgErr = NoError /\ open1Err = NoError
          IN /\ dbExists' = (dbExists \/ (sent /\ execErr = NoError))
             /\ client' = (client \/ r.handle)
             /\ ret' = [Return("NewDbClientFromEnvironment", FALSE, r.failed,
                                r.err, IF sent THEN <<execErr>> ELSE <<>>,
                                NoRows, NoRows)
                          EXCEPT !.opened = r.opened, !.handle = r.handle]
    /\ UNCHANGED <<schemaExists, tables, status_page, incidents, mig, inserted,
                   latest, calls, base>>

\* the process ends (a crash or a normal exit); the database stays
Restart ==
    /\ client
    /\ client' = FALSE
    /\ mig' = MigIdle
    /\ ret' = NoReturn
    /\ UNCHANGED <<dbExists, schemaExists, tables, status_page, incidents,
                   inserted, latest, calls, base>>

-----------------------------------------------------------------------------
(* AutoMigrate: three statements, no transaction around them *)

\* what CREATE SCHEMA IF NOT EXISTS can answer
CreateSchemaOutcomes == {NoError, ConnError, PgError(InsufficientPrivilege)}

DuplicateTable == "42P07"

\* the migration written as a bare CREATE TABLE: refused when the table is
\* there
MigrateTableErrorCreateOnly(table, fault) ==
    IF fault THEN ConnError
    ELSE IF ~schemaExists THEN PgError(InvalidSchemaName)
    ELSE IF table \in tables THEN PgError(DuplicateTable)
    ELSE NoError

\* gorm's Migrator.AutoMigrate on schemaName.table: CREATE TABLE when the
\* table is missing, which needs the namespace; nothing to alter otherwise
MigrateTableError(table, fault) ==
    IF fault THEN ConnError
    ELSE IF ~schemaExists THEN PgError(InvalidSchemaName)
    ELSE NoError

\* line 99: CREATE SCHEMA IF NOT EXISTS, its result dropped
AutoMigrateSchema ==
    /\ client
    /\ mig.pc = "idle"
    /\ \E ctxDone \in BOOLEAN, err \in CreateSchemaOutcomes :
          /\ schemaExists' = (schemaExists \/ err = NoError)
          /\ mig' = [pc |-> statusPageTableName, ctxDone |-> ctxDone,
                     failed |-> (err # NoError)]
    /\ UNCHANGED <<dbExists, tables, status_page, incidents, client, ret,
                   inserted, latest, calls, base>>

\* lines 102-105 and 108-111: migrate one table, return on its error, go on
\* to `next` (or return nil after the last table); the run is marked failed
\* when the store failed one of its statements: CREATE SCHEMA refused or
\* lost, or the round trip of a table step lost
AutoMigrateTable(table, next, msg) ==
    /\ client
    /\ mig.pc = table
    /\ \E fault \in BOOLEAN :
          LET err == MigrateTableError(table, fault)
              done == err # NoError \/ next = "idle"
          IN /\ tables' = (IF err = NoError THEN tables \cup {table} ELSE tables)
             /\ mig' = (IF done THEN MigIdle ELSE [mig EXCEPT !.pc = next])
             /\ ret' = (IF done
                        THEN Return("AutoMigrate", mig.ctxDone,
                                    mig.failed \/ fault,
                                    IF err = NoError THEN NoError ELSE Wrap(err, msg),
                                    NoRows, NoRows, NoRows)
                        ELSE ret)
    /\ UNCHANGED <<dbExists, schemaExists, status_page, incidents, client,
                   inserted, latest, calls, base>>

AutoMigrateStatusPage ==
    AutoMigrateTable(statusPageTableName, incidentsTableName,
                     "failed to auto-migrate status_page table")

AutoMigrateIncidents ==
    AutoMigrateTable(incidentsTableName, "idle",
                     "failed to auto-migrate incidents table")

-----------------------------------------------------------------------------
(* Status pages *)

\* the rows WHERE url = ? selects
PagesWithURL(url) == {r \in status_page : r.URL = url}

\* the rows that collide with page on the table's unique key
PageConflicts(page) == PagesWithURL(page.URL)

\* the insert written as ON CONFLICT DO NOTHING
InsertStatusPageDoNothing(page, fault) ==
    LET err == StatementError(statusPageTableName, fault)
    IN IF err # NoError THEN [err |-> err, rows |-> status_page]
       ELSE IF PageConflicts(page) # {} THEN [err |-> NoError, rows |-> status_page]
       ELSE [err |-> NoError, rows |-> status_page \cup {page}]

\* lines 142-148: a plain INSERT, its error handed back as it is; a row
\* that collides on the unique key is refused with SQLSTATE 23505
InsertStatusPageResult(page, fault) ==
    LET err == StatementError(statusPageTableName, fault)
    IN IF err # NoError THEN [err |-> err, rows |-> status_page]
       ELSE IF PageConflicts(page) # {}
       THEN [err |-> PgError(UniqueViolation), rows |-> status_page]
       ELSE [err |-> NoError, rows |-> status_page \cup {page}]

\* gorm's Updates with a struct: the non-zero fields are assigned
UpdatedPage(row, page) ==
    [URL |-> row.URL,
     Name |-> IF page.Name = "" THEN row.Name ELSE page.Name,
     LastScraped |-> IF page.LastScraped = 0 THEN row.LastScraped
                     ELSE page.LastScraped]

\* the update written as gorm's Save: an insert when no row matches
UpdatedPagesOrInsert(page) ==
    IF PagesWithURL(page.URL) = {} THEN status_page \cup {page}
    ELSE {IF r.URL = page.URL THEN UpdatedPage(r, page) ELSE r : r \in status_page}

\* lines 134-140: UPDATE status_page SET ... WHERE url = page.URL
UpdatedPages(page) ==
    {IF r.URL = page.URL THEN UpdatedPage(r, page) ELSE r : r \in status_page}

GetAllStatusPages ==
    \E ctxDone, fault \in BOOLEAN :
        LET err == StatementError(statusPageTableName, fault)
        IN /\ ret' = Return("GetAllStatusPages", ctxDone, err # NoError, err,
                            NoRows, IF err = NoError THEN status_page ELSE NoRows,
                            status_page)
           /\ UNCHANGED <<status_page, inserted>>

\* the read written with Find(): no error and the zero value when no row
\* matches
GetStatusPageResultFind(url, fault) ==
    LET err == StatementError(statusPageTableName, fault)
    IN IF err # NoError THEN [val |-> NoRows, err |-> err]
       ELSE IF PagesWithURL(url) = {}
       THEN [val |-> {[URL |-> "", Name |-> "", LastScraped |-> 0]}, err |-> NoError]
       ELSE [val |-> {CHOOSE r \in PagesWithURL(url) : TRUE}, err |-> NoError]

\* lines 125-132: First() answers ErrRecordNotFound when no row matches
GetStatusPageResult(url, fault) ==
    LET err == StatementError(statusPageTableName, fault)
    IN IF err # NoError THEN [val |-> NoRows, err |-> err]
       ELSE IF PagesWithURL(url) = {} THEN [val |-> NoRows, err |-> ErrRecordNotFound]
       ELSE [val |-> {CHOOSE r \in PagesWithURL(url) : TRUE}, err |-> NoError]

GetStatusPage ==
    \E ctxDone, fault \in BOOLEAN, url \in URLs :
        LET r == GetStatusPageResult(url, fault)
        IN /\ ret' = Return("GetStatusPage", ctxDone,
                            StatementError(statusPageTableName, fault) # NoError,
                            r.err, url, r.val, status_page)
           /\ UNCHANGED <<status_page, inserted>>

\* the fields Updates() assigns: the non-zero ones, the key url going to the
\* WHERE clause; with nothing to assign gorm sends no statement
UpdateAssignments(page) ==
    (IF page.Name = "" THEN {} ELSE {"Name"})
        \cup (IF page.LastScraped = 0 THEN {} ELSE {"LastScraped"})

UpdateStatusPage ==
    \E ctxDone, fault \in BOOLEAN, page \in StatusPages :
        LET err == IF UpdateAssignments(page) = {} THEN NoError
                   ELSE StatementError(statusPageTableName, fault)
        IN /\ status_page' = (IF err = NoError THEN UpdatedPages(page)
                              ELSE status_page)
           /\ ret' = Return("UpdateStatusPage", ctxDone, err # NoError, err,
                            page, NoRows, status_page)
           /\ UNCHANGED inserted

InsertStatusPage ==
    \E ctxDone, fault \in BOOLEAN, page \in StatusPages :
        LET r == InsertStatusPageResult(page, fault)
        IN /\ status_page' = r.rows
           /\ inserted' = (IF r.err = NoError THEN inserted \cup {page.URL}
                           ELSE inserted)
           /\ ret' = Return("InsertStatusPage", ctxDone, r.err # NoError, r.err,
                            page, NoRows, status_page)

\* a method of the client runs: the caller holds a client and no AutoMigrate
\* of this process is in flight
StatusPageOp(op) ==
    /\ client
    /\ mig.pc = "idle"
    /\ op
    /\ UNCHANGED <<dbExists, schemaExists, tables, incidents, client, mig,
                   latest, calls, base>>

-----------------------------------------------------------------------------
(* Incidents *)

DeepLinks == {"d1", "d2"}

\* the contents a scrape reports for an incident: a revision of its text and
\* times, and the status page it was found on
Contents == {[rev |-> "r1", url |-> "u1"], [rev |-> "r2", url |-> "u2"]}

\* the columns of the incidents table
IncidentColumns ==
    {"title", "components", "events", "start_time", "end_time", "description",
     "deep_link", "impact", "status_page_url"}

\* an api.Incident as its column values: the incident at deep link d with
\* contents k
Incident(d, k) ==
    [c \in IncidentColumns |->
        IF c = "deep_link" THEN d
        ELSE IF c = "status_page_url" THEN k.url
        ELSE <<c, k.rev>>]

Incidents == {Incident(d, k) : d \in DeepLinks, k \in Contents}

\* sequences of incidents of length 0..n
RECURSIVE BatchesUpTo(_)
BatchesUpTo(n) ==
    IF n = 0 THEN {<<>>}
    ELSE LET shorter == BatchesUpTo(n - 1)
         IN shorter \cup {Append(b, i) : b \in {x \in shorter : Len(x) = n - 1},
                                          i \in Incidents}

Batches == BatchesUpTo(MaxBatch)

\* line 162: the conflict target of the upsert
OnConflictColumns == {"deep_link"}

\* the column list with title left out
DoUpdatesWithoutTitle ==
    {"components", "events", "start_time", "end_time", "description",
     "impact", "status_page_url"}

\* line 163: the columns assigned from the proposed row on conflict
DoUpdates ==
    {"title", "components", "events", "start_time", "end_time", "description",
     "impact", "status_page_url"}

\* the rows of `rows` that collide with inc on the conflict target
Conflicting(rows, inc) ==
    {r \in rows : \A c \in OnConflictColumns : r[c] = inc[c]}

\* the statement written as ON CONFLICT DO NOTHING
UpsertRowDoNothing(rows, inc) ==
    IF Conflicting(rows, inc) = {} THEN rows \cup {inc} ELSE rows

\* INSERT ... ON CONFLICT (deep_link) DO UPDATE SET c = excluded.c for one
\* proposed row
UpsertRow(rows, inc) ==
    IF Conflicting(rows, inc) = {} THEN rows \cup {inc}
    ELSE (rows \ Conflicting(rows, inc))
            \cup {[c \in IncidentColumns |-> IF c \in DoUpdates THEN inc[c] ELSE r[c]] :
                     r \in Conflicting(rows, inc)}

\* the whole VALUES list in order; a second proposed row for a key the
\* statement already touched aborts it (SQLSTATE 21000)
RECURSIVE UpsertAll(_, _, _)
UpsertAll(rows, batch, touched) ==
    IF batch = <<>> THEN [err |-> NoError, rows |-> rows]
    ELSE LET inc == Head(batch)
             key == [c \in OnConflictColumns |-> inc[c]]
         IN IF key \in touched
            THEN [err |-> PgError(CardinalityViolation), rows |-> rows]
            ELSE UpsertAll(UpsertRow(rows, inc), Tail(batch), touched \cup {key})

\* lines 159-170: one INSERT for the whole slice, in gorm's default
\* transaction; an empty slice is refused before any statement is sent
CreateOrUpdateIncidentsResult(batch, fault) ==
    IF batch = <<>> THEN [err |-> ErrEmptySlice, rows |-> incidents]
    ELSE IF StatementError(incidentsTableName, fault) # NoError
    THEN [err |-> StatementError(incidentsTableName, fault), rows |-> incidents]
    ELSE LET r == UpsertAll(incidents, batch, {})
         IN IF r.err # NoError THEN [err |-> r.err, rows |-> incidents] ELSE r

\* the deep links a batch names
BatchLinks(batch) == {batch[i]["deep_link"] : i \in 1..Len(batch)}

CreateOrUpdateIncidents ==
    \E ctxDone, fault \in BOOLEAN, batch \in Batches :
        LET r == CreateOrUpdateIncidentsResult(batch, fault)
        IN /\ incidents' = r.rows
           /\ latest' = (IF r.err = NoError
                         THEN {i \in latest : i["deep_link"] \notin BatchLinks(batch)}
                                \cup {batch[i] : i \in 1..Len(batch)}
                         ELSE latest)
           /\ ret' = Return("CreateOrUpdateIncidents", ctxDone,
                            batch # <<>> /\ r.err # NoError, r.err, batch, NoRows,
                            incidents)

GetIncidents ==
    \E ctxDone, fault \in BOOLEAN, statusPageUrl \in URLs :
        LET err == StatementError(incidentsTableName, fault)
        IN /\ ret' = Return("GetIncidents", ctxDone, err # NoError, err,
                            statusPageUrl,
                            IF err = NoError
                            THEN {r \in incidents : r["status_page_url"] = statusPageUrl}
                            ELSE NoRows,
                            incidents)
           /\ UNCHANGED <<incidents, latest>>

IncidentOp(op) ==
    /\ client
    /\ mig.pc = "idle"
    /\ op
    /\ UNCHANGED <<dbExists, schemaExists, tables, status_page, client, mig,
                   inserted, calls, base>>

-----------------------------------------------------------------------------
(* Concurrent scrape runs: each CreateOrUpdateIncidents call is one        *)
(* transaction of the store (READ COMMITTED), which takes the proposed     *)
(* rows in order, locks every key it writes until it commits, and makes a  *)
(* writer of a locked key wait.                                            *)

Procs == {"s1", "s2"}

CallIdle ==
    [pc |-> "idle", batch |-> <<>>, next |-> 1, locked |-> {}, undo |-> {},
     seen |-> {}, raced |-> FALSE, err |-> NoError]

\* the keys (deep links) of the rows of a table
Keys(rows) == {r["deep_link"] : r \in rows}

\* the row the call p proposes next
Proposed(p) == calls[p].batch[calls[p].next]

\* another transaction holds the lock on the proposed row's key
LockedByOther(p) ==
    \E q \in Procs \ {p} :
        calls[q].pc = "run" /\ Proposed(p)["deep_link"] \in calls[q].locked

\* read-then-branch-then-write: the decision taken from what the call read
\* when it began
RowExistsAtStart(p) == Proposed(p)["deep_link"] \in calls[p].seen

\* lines 161-164: whether the proposed row is an update is decided by the
\* store, on the conflict target, at the moment it writes the row
RowExists(p) == Conflicting(incidents, Proposed(p)) # {}

\* the table with the writes of transaction p undone
RolledBack(p) ==
    {r \in incidents : r["deep_link"] \notin calls[p].locked} \cup calls[p].undo

Finished(p, err) ==
    [calls[p] EXCEPT !.pc = "done", !.locked = {}, !.undo = {}, !.err = err]

\* the caller hands a slice to CreateOrUpdateIncidents
BeginCall(p) ==
    /\ calls[p].pc = "idle"
    /\ \E batch \in Batches \ {<<>>} :
          calls' = [calls EXCEPT ![p] =
                      [CallIdle EXCEPT !.pc = "run", !.batch = batch,
                                       !.seen = Keys(incidents)]]
    /\ base' = (IF \A q \in Procs : calls[q].pc = "idle" THEN incidents ELSE base)
    /\ UNCHANGED incidents

\* the statement takes its next proposed row
RowStep(p) ==
    /\ calls[p].pc = "run"
    /\ calls[p].next <= Len(calls[p].batch)
    /\ LET inc == Proposed(p)
           key == inc["deep_link"]
       IN IF key \in calls[p].locked
          THEN /\ incidents' = RolledBack(p)
               /\ calls' = [calls EXCEPT ![p] = Finished(p, PgError(CardinalityViolation))]
          ELSE /\ ~LockedByOther(p)
               /\ IF RowExists(p)
                  THEN /\ incidents' = UpsertRow(incidents, inc)
                       /\ calls' = [calls EXCEPT
                             ![p].next = @ + 1,
                             ![p].locked = @ \cup {key},
                             ![p].undo = @ \cup Conflicting(incidents, inc),
                             ![p].raced = @ \/ key \notin calls[p].seen]
                  ELSE IF Conflicting(incidents, inc) # {}
                  THEN \* a plain INSERT of a key that is there: 23505
                       /\ incidents' = RolledBack(p)
                       /\ calls' = [calls EXCEPT ![p] = Finished(p, PgError(UniqueViolation))]
                  ELSE /\ incidents' = incidents \cup {inc}
                       /\ calls' = [calls EXCEPT ![p].next = @ + 1,
                                                 ![p].locked = @ \cup {key}]
    /\ UNCHANGED base

\* the statement is through its rows: gorm commits and returns nil
Commit(p) ==
    /\ calls[p].pc = "run"
    /\ calls[p].next > Len(calls[p].batch)
    /\ calls' = [calls EXCEPT ![p] = Finished(p, NoError)]
    /\ UNCHANGED <<incidents, base>>

\* p waits for q and q waits for p: the store's deadlock detector aborts p
\* (SQLSTATE 40P01)
Deadlock(p) ==
    /\ calls[p].pc = "run"
    /\ calls[p].next <= Len(calls[p].batch)
    /\ \E q \in Procs \ {p} :
          /\ calls[q].pc = "run"
          /\ calls[q].next <= Len(calls[q].batch)
          /\ Proposed(p)["deep_link"] \in calls[q].locked
          /\ Proposed(q)["deep_link"] \in calls[p].locked
    /\ incidents' = RolledBack(p)
    /\ calls' = [calls EXCEPT ![p] = Finished(p, PgError(DeadlockDetected))]
    /\ UNCHANGED base

\* every call has returned: the scrape runs go on to their next round
NextRound ==
    /\ \A p \in Procs : calls[p].pc # "run"
    /\ \E p \in Procs : calls[p].pc = "done"
    /\ calls' = [p \in Procs |-> CallIdle]
    /\ base' = incidents
    /\ UNCHANGED incidents

ConcOp(op) ==
    /\ op
    /\ UNCHANGED <<dbExists, schemaExists, tables, status_page, client, mig,
                   ret, inserted, latest>>

-----------------------------------------------------------------------------

Init ==
    /\ dbExists \in BOOLEAN
    /\ schemaExists = FALSE
    /\ tables = {}
    /\ status_page = {}
    /\ incidents = {}
    /\ client = FALSE
    /\ mig = MigIdle
    /\ ret = NoReturn
    /\ inserted = {}
    /\ latest = {}
    /\ calls = <<>>
    /\ base = {}

Next ==
    \/ NewDbClientFromEnvironment
    \/ Restart
    \/ AutoMigrateSchema
    \/ AutoMigrateStatusPage
    \/ AutoMigrateIncidents
    \/ StatusPageOp(GetAllStatusPages)
    \/ StatusPageOp(GetStatusPage)
    \/ StatusPageOp(UpdateStatusPage)
    \/ StatusPageOp(InsertStatusPage)

Spec == Init /\ [][Next]_vars

\* a constructed client on a migrated, empty database
InitMigrated ==
    /\ dbExists = TRUE
    /\ schemaExists = TRUE
    /\ tables = {statusPageTableName, incidentsTableName}
    /\ status_page = {}
    /\ incidents = {}
    /\ client = TRUE
    /\ mig = MigIdle
    /\ ret = NoReturn
    /\ inserted = {}
    /\ latest = {}
    /\ calls = <<>>
    /\ base = {}

NextIncidents ==
    \/ IncidentOp(CreateOrUpdateIncidents)
    \/ IncidentOp(GetIncidents)

SpecIncidents == InitMigrated /\ [][NextIncidents]_vars

\* two scrape runs on a migrated database
InitConc ==
    /\ dbExists = TRUE
    /\ schemaExists = TRUE
    /\ tables = {statusPageTableName, incidentsTableName}
    /\ status_page = {}
    /\ incidents = {}
    /\ client = TRUE
    /\ mig = MigIdle
    /\ ret = NoReturn
    /\ inserted = {}
    /\ latest = {}
    /\ calls = [p \in Procs |-> CallIdle]
    /\ base = {}

NextConc ==
    \/ \E p \in Procs : ConcOp(BeginCall(p))
    \/ \E p \in Procs : ConcOp(RowStep(p))
    \/ \E p \in Procs : ConcOp(Commit(p))
    \/ \E p \in Procs : ConcOp(Deadlock(p))
    \/ ConcOp(NextRound)

SpecConc == InitConc /\ [][NextConc]_vars

-----------------------------------------------------------------------------
(* Properties *)

\* the rows of a table at a deep link
RowsAt(rows, d) == {r \in rows : r["deep_link"] = d}

\* the columns the upsert is said to refresh
FixedUpdateSet ==
    {"title", "components", "events", "start_time", "end_time", "description",
     "impact", "status_page_url"}

\* row r carries the values of incident i in every refreshed column
Carries(r, i) == \A c \in FixedUpdateSet : r[c] = i[c]

UpsertReturned == ret.op = "CreateOrUpdateIncidents"

\* C1: after any sequence of successful CreateOrUpdateIncidents calls the
\* table holds exactly one row for every deep link ever passed in, and the
\* row's title and the other refreshed columns are those of the most recent
\* call that contained the deep link.
C1_LatestUpsertWins ==
    /\ Keys(incidents) = Keys(latest)
    /\ \A i \in latest :
          /\ Cardinality(RowsAt(incidents, i["deep_link"])) = 1
          /\ \A r \in RowsAt(incidents, i["deep_link"]) : Carries(r, i)

\* a second successful call has changed the title stored at a deep link
C1_Witness ==
    /\ UpsertReturned
    /\ ret.err = NoError
    /\ \E n \in 1..Len(ret.arg) :
          \E r \in RowsAt(ret.before, ret.arg[n]["deep_link"]) :
              /\ r["title"] # ret.arg[n]["title"]
              /\ \E q \in RowsAt(incidents, r["deep_link"]) :
                    q["title"] = ret.arg[n]["title"]

\* C2: a call with a batch of N incidents, some new and some stored, leaves
\* exactly N rows for the batch's deep links, every incident of the batch
\* applied and every other row as it was; a call that returns an error has
\* inserted and changed nothing.
C2_BatchAppliedWholeOrNotAtAll ==
    UpsertReturned =>
        IF ret.err = NoError
        THEN /\ \A n \in 1..Len(ret.arg) :
                   /\ Cardinality(RowsAt(incidents, ret.arg[n]["deep_link"])) = 1
                   /\ \A r \in RowsAt(incidents, ret.arg[n]["deep_link"]) :
                         Carries(r, ret.arg[n])
             /\ Cardinality({r \in incidents : r["deep_link"] \in BatchLinks(ret.arg)})
                   = Len(ret.arg)
             /\ {r \in incidents : r["deep_link"] \notin BatchLinks(ret.arg)}
                   = {r \in ret.before : r["deep_link"] \notin BatchLinks(ret.arg)}
        ELSE incidents = ret.before

\* a successful batch of two with one deep link stored before and one new
C2_Witness ==
    /\ UpsertReturned
    /\ ret.err = NoError
    /\ Len(ret.arg) = 2
    /\ \E n, m \in 1..2 :
          /\ RowsAt(ret.before, ret.arg[n]["deep_link"]) # {}
          /\ \E r \in RowsAt(ret.before, ret.arg[n]["deep_link"]) :
                ~Carries(r, ret.arg[n])
          /\ RowsAt(ret.before, ret.arg[m]["deep_link"]) = {}

\* every concurrent call has returned
Quiescent ==
    /\ \A p \in Procs : calls[p].pc # "run"
    /\ \E p \in Procs : calls[p].pc = "done"

\* the calls that returned nil
Committed == {p \in Procs : calls[p].pc = "done" /\ calls[p].err = NoError}

\* the orders in which the calls of S can run one after the other
Orders(S) ==
    {o \in [1..Cardinality(S) -> S] :
        \A i, j \in 1..Cardinality(S) : o[i] = o[j] => i = j}

\* the table after the batches of the calls of `order` ran one at a time
RECURSIVE Serial(_, _)
Serial(rows, order) ==
    IF order = <<>> THEN rows
    ELSE Serial(UpsertAll(rows, calls[Head(order)].batch, {}).rows, Tail(order))

\* C3: whatever the interleaving of concurrent CreateOrUpdateIncidents
\* calls, no call fails with a unique-key violation, a deep link never has
\* two rows, and once the calls have returned each deep link of a call that
\* succeeded has one row, taken whole from a single call, the table being
\* what some serial order of the calls that succeeded leaves.
C3_ConcurrentUpsertsSerialize ==
    /\ \A p \in Procs : calls[p].err # PgError(UniqueViolation)
    /\ \A d \in DeepLinks : Cardinality(RowsAt(incidents, d)) <= 1
    /\ Quiescent =>
          /\ \A p \in Committed : \A n \in 1..Len(calls[p].batch) :
                \E r \in RowsAt(incidents, calls[p].batch[n]["deep_link"]) :
                    \E q \in Committed : \E m \in 1..Len(calls[q].batch) :
                        /\ r["deep_link"] = calls[q].batch[m]["deep_link"]
                        /\ Carries(r, calls[q].batch[m])
          /\ \E o \in Orders(Committed) :
                incidents = Serial(base, [i \in 1..Len(o) |-> o[i]])

\* two calls that overlapped on a deep link both returned nil, one of them
\* having updated a row that was not there when it began
C3_Witness ==
    /\ Quiescent
    /\ Committed = Procs
    /\ \E p \in Procs : calls[p].raced
    /\ \E p, q \in Procs :
          /\ p # q
          /\ BatchLinks(calls[p].batch) \cap BatchLinks(calls[q].batch) # {}

InsertReturned == ret.op = "InsertStatusPage"

\* C4: InsertStatusPage with a page whose URL is stored fails with the
\* unique-key violation and leaves the table as it was, so the table never
\* holds two rows with one URL.
C4_InsertOfStoredURLRefused ==
    /\ \A r1, r2 \in status_page : r1.URL = r2.URL => r1 = r2
    /\ (InsertReturned /\ \E r \in ret.before : r.URL = ret.arg.URL) =>
          /\ ret.err \in {PgError(UniqueViolation), ConnError}
          /\ status_page = ret.before

\* an insert of a stored URL with other contents was refused with 23505
C4_Witness ==
    /\ InsertReturned
    /\ ret.err = PgError(UniqueViolation)
    /\ ret.arg \notin ret.before
    /\ \E r \in status_page : r.URL = ret.arg.URL

GetReturned == ret.op = "GetStatusPage"

\* C5: GetStatusPage answers from the table: a page it returns is the one
\* row stored under the URL, right after a successful InsertStatusPage(page)
\* the read of page.URL returns page, and for a URL never inserted it
\* returns no page and an error, ErrRecordNotFound whenever the query ran.
C5_GetReflectsTable ==
    /\ (GetReturned /\ ret.err = NoError) =>
          /\ Cardinality(ret.val) = 1
          /\ ret.val = {r \in status_page : r.URL = ret.arg}
    /\ (InsertReturned /\ ret.err = NoError) =>
          GetStatusPageResult(ret.arg.URL, FALSE) = [val |-> {ret.arg}, err |-> NoError]
    /\ (GetReturned /\ ret.arg \notin inserted) =>
          /\ ret.val = NoRows
          /\ ret.err # NoError
          /\ ~ret.failed => ret.err = ErrRecordNotFound

\* a read of an inserted URL returned a page with a name
C5_Witness ==
    /\ GetReturned
    /\ ret.err = NoError
    /\ ret.arg \in inserted
    /\ \E r \in ret.val : r.Name # ""

UpdateReturned == ret.op = "UpdateStatusPage"

\* C6: UpdateStatusPage with a URL that matches no row inserts nothing and,
\* unless its statement failed, returns nil: the table is as it was and a
\* read of the URL still finds no page (ErrRecordNotFound, the table being
\* there); when a row matches, the rows of the other URLs stay as they were
\* and no row is added or removed.
C6_UpdateNeverInserts ==
    UpdateReturned =>
        /\ {r.URL : r \in status_page} = {r.URL : r \in ret.before}
        /\ Cardinality(status_page) = Cardinality(ret.before)
        /\ {r \in status_page : r.URL # ret.arg.URL}
              = {r \in ret.before : r.URL # ret.arg.URL}
        /\ (\A r \in ret.before : r.URL # ret.arg.URL) =>
              /\ status_page = ret.before
              /\ ~ret.failed => ret.err = NoError
              /\ GetStatusPageResult(ret.arg.URL, FALSE).val = NoRows
              /\ StatementError(statusPageTableName, FALSE) = NoError =>
                    GetStatusPageResult(ret.arg.URL, FALSE).err = ErrRecordNotFound

\* an update of a URL that is not stored, on a table with rows, returned nil
C6_Witness ==
    /\ UpdateReturned
    /\ ret.err = NoError
    /\ ret.before # {}
    /\ \A r \in ret.before : r.URL # ret.arg.URL

NewReturned == ret.op = "NewDbClientFromEnvironment"

\* C7: once CREATE DATABASE was sent, the step passes when the statement
\* succeeded or answered 42P04, and then the second connection is opened
\* and the client returned unless that connection fails; any other answer
\* ends the construction with an error, no client and no second connection.
C7_CreateDatabaseIdempotent ==
    (NewReturned /\ ret.arg # <<>>) =>
        IF ret.arg[1] \in {NoError, PgError(DuplicateDatabase)}
        THEN /\ ret.opened = 2
             /\ ret.handle <=> ret.err = NoError
             /\ ret.err \in {NoError, Wrap(ConnError, "failed to connect to postgres")}
        ELSE /\ ret.opened = 1
             /\ ~ret.handle
             /\ ret.err = Wrap(ret.arg[1], "failed to create postgres database")

\* a client was constructed against a database that was already there
C7_Witness ==
    /\ NewReturned
    /\ ret.arg = <<PgError(DuplicateDatabase)>>
    /\ ret.handle

MigrateReturned == ret.op = "AutoMigrate"

AllTables == {statusPageTableName, incidentsTableName}

\* C8: an AutoMigrate run none of whose statements failed returns nil from
\* whatever schema state an earlier run left, a run that returns nil leaves
\* the namespace and both tables in place, and no step of a run removes a
\* part of the schema or touches a stored row.
C8_AutoMigrateConverges ==
    /\ [](MigrateReturned /\ ~ret.failed => ret.err = NoError)
    /\ [](MigrateReturned /\ ret.err = NoError => schemaExists /\ tables = AllTables)
    /\ [][(mig.pc # "idle" \/ mig'.pc # "idle") =>
            /\ status_page' = status_page
            /\ incidents' = incidents
            /\ schemaExists => schemaExists'
            /\ tables \subseteq tables']_vars

\* AutoMigrate ran again on the complete schema with rows stored and
\* returned nil
C8_Witness ==
    /\ MigrateReturned
    /\ ret.err = NoError
    /\ status_page # {}

\* C9: whenever a statement an operation sent to the store failed (the
\* 42P04 answer to CREATE DATABASE aside), the operation returns an error.
C9_NoErrorSwallowed == ret.failed => ret.err # NoError

\* C10: an operation whose context was cancelled before its round trip
\* completed does not run to completion: it returns an error.
C10_ContextHonored == ret.ctxDone => ret.err # NoError

====
